---- MODULE Spec2Model ----
(***************************************************************************)
(* Validation of CycloneDX hashes and formulas (cyclonedx-bom):            *)
(*   models/hash.rs             Hash, Hashes, HashAlgorithm, HashValue,    *)
(*                              validate_hash_algorithm,                   *)
(*                              validate_hash_value, HASH_VALUE_REGEX      *)
(*   models/formulation/mod.rs  Formula and its Validate implementation    *)
(* The ValidationContext builder and the validators of Component, Service, *)
(* Workflow and Properties live in other files of the crate; they are      *)
(* modelled from the specification document.                               *)
(*                                                                         *)
(* Conventions: Option<T> is a sequence of length 0 (None) or 1 (Some);    *)
(* a String whose characters matter (HashValue) is a sequence of           *)
(* one-character strings; a String that is only compared is a TLA+ string. *)
(***************************************************************************)
EXTENDS Integers, Sequences, FiniteSets

VARIABLES
    algInput,      \* Option<String>: the text handed to new_unchecked
    alg,           \* Option<HashAlgorithm>: the value built from it
    algText,       \* Option<String>: alg.to_string()
    algCheck,      \* Option<Result>: validate_hash_algorithm(&alg)
    content,       \* HashValue handed to validate_hash_value
    contentCheck,  \* Option<Result>: validate_hash_value(&content)
    hashes,        \* Hashes under validation
    hversion,      \* Option<SpecVersion> of the last Hashes::validate
    hresult,       \* Option<ValidationResult> of the last Hashes::validate
    formula,       \* Formula under validation
    fversion,      \* Option<SpecVersion> of the last validate_version
    fresult,       \* Option<ValidationResult> of the first validate_version
    fresult2,      \* Option<ValidationResult> of the second validate_version
    cell,          \* the static HASH_VALUE_REGEX: a once_cell Lazy<Regex>
    compiles,      \* how many times the Lazy's closure ran Regex::new
    pc,            \* per thread: position inside validate_hash_value
    arg,           \* per thread: the HashValue it was called with
    ret            \* per thread: Option<Result> it returned

algVars     == <<algInput, alg, algText, algCheck>>
contentVars == <<content, contentCheck>>
hashVars    == <<hashes, hversion, hresult>>
formulaVars == <<formula, fversion, fresult, fresult2>>
threadVars  == <<cell, compiles, pc, arg, ret>>
vars == <<algVars, contentVars, hashVars, formulaVars, threadVars>>

None    == <<>>
Some(x) == <<x>>

(***************************************************************************)
(* Bounds of the model.                                                    *)
(***************************************************************************)
MaxAffix  == 1   \* characters put before / after a run of hex characters
RunSlack  == 1   \* how far a run's length may miss a digest length
MaxHashes == 2   \* elements of a Hashes list
MaxList   == 3   \* elements of one list of a Formula
MaxTotal  == 4   \* elements of the three lists of a Formula together
NumThreads == 2  \* threads calling validate_hash_value concurrently

(***************************************************************************)
(* Result<(), ValidationError>, ValidationError, ValidationResult.         *)
(***************************************************************************)
ValidationError_new(text) == [text |-> text, args |-> <<>>]

Ok       == [ok |-> TRUE,  error |-> ValidationError_new("")]
Err(e)   == [ok |-> FALSE, error |-> e]

Passed         == [kind |-> "Passed", errors |-> <<>>]
Failed(errors) == [kind |-> "Failed", errors |-> errors]

\* A path segment: a field or list name, or a zero-based list index.
Fld(name) == [name |-> name, index |-> -1]
Idx(i)    == [name |-> "",   index |-> i]

\* A path-tagged error of a ValidationResult.
Tagged(path, message) == [path |-> path, message |-> message]

\* impl From<Result<(), ValidationError>> for ValidationResult
Result_into(r) == IF r.ok THEN Passed ELSE Failed(<<Tagged(<<>>, r.error)>>)

SpecVersions == {"V1_3", "V1_4", "V1_5"}

(***************************************************************************)
(* HashAlgorithm: twelve named variants and UnknownHashAlgorithm(String).  *)
(***************************************************************************)
Variant(tag)            == [tag |-> tag, un |-> ""]
UnknownHashAlgorithm(s) == [tag |-> "UnknownHashAlgorithm", un |-> s]

\* A plausible slip: the display string of SHA1 written without its hyphen.
to_string_NoHyphen(self) ==
    CASE self.tag = "MD5"         -> "MD5"
      [] self.tag = "SHA1"        -> "SHA1"
      [] self.tag = "SHA256"      -> "SHA-256"
      [] self.tag = "SHA384"      -> "SHA-384"
      [] self.tag = "SHA512"      -> "SHA-512"
      [] self.tag = "SHA3_256"    -> "SHA3-256"
      [] self.tag = "SHA3_384"    -> "SHA3-384"
      [] self.tag = "SHA3_512"    -> "SHA3-512"
      [] self.tag = "BLAKE2b_256" -> "BLAKE2b-256"
      [] self.tag = "BLAKE2b_384" -> "BLAKE2b-384"
      [] self.tag = "BLAKE2b_512" -> "BLAKE2b-512"
      [] self.tag = "BLAKE3"      -> "BLAKE3"
      [] OTHER                    -> self.un

\* impl ToString for HashAlgorithm
to_string(self) ==
    CASE self.tag = "MD5"         -> "MD5"
      [] self.tag = "SHA1"        -> "SHA-1"
      [] self.tag = "SHA256"      -> "SHA-256"
      [] self.tag = "SHA384"      -> "SHA-384"
      [] self.tag = "SHA512"      -> "SHA-512"
      [] self.tag = "SHA3_256"    -> "SHA3-256"
      [] self.tag = "SHA3_384"    -> "SHA3-384"
      [] self.tag = "SHA3_512"    -> "SHA3-512"
      [] self.tag = "BLAKE2b_256" -> "BLAKE2b-256"
      [] self.tag = "BLAKE2b_384" -> "BLAKE2b-384"
      [] self.tag = "BLAKE2b_512" -> "BLAKE2b-512"
      [] self.tag = "BLAKE3"      -> "BLAKE3"
      [] self.tag = "UnknownHashAlgorithm" -> self.un

\* HashAlgorithm::new_unchecked
new_unchecked(value) ==
    CASE value = "MD5"         -> Variant("MD5")
      [] value = "SHA-1"       -> Variant("SHA1")
      [] value = "SHA-256"     -> Variant("SHA256")
      [] value = "SHA-384"     -> Variant("SHA384")
      [] value = "SHA-512"     -> Variant("SHA512")
      [] value = "SHA3-256"    -> Variant("SHA3_256")
      [] value = "SHA3-384"    -> Variant("SHA3_384")
      [] value = "SHA3-512"    -> Variant("SHA3_512")
      [] value = "BLAKE2b-256" -> Variant("BLAKE2b_256")
      [] value = "BLAKE2b-384" -> Variant("BLAKE2b_384")
      [] value = "BLAKE2b-512" -> Variant("BLAKE2b_512")
      [] value = "BLAKE3"      -> Variant("BLAKE3")
      [] OTHER                 -> UnknownHashAlgorithm(value)

\* A plausible slip: the test negated away for one named variant.
validate_hash_algorithm_Md5Rejected(algorithm) ==
    IF algorithm.tag = "UnknownHashAlgorithm" \/ algorithm.tag = "MD5"
    THEN Err(ValidationError_new("Unknown HashAlgorithm"))
    ELSE Ok

\* validate_hash_algorithm
validate_hash_algorithm(algorithm) ==
    IF algorithm.tag = "UnknownHashAlgorithm"
    THEN Err(ValidationError_new("Unknown HashAlgorithm"))
    ELSE Ok

(***************************************************************************)
(* Inputs of the algorithm operations: the twelve names of the table and   *)
(* strings that are not in it (other case, other spelling, padding, empty).*)
(***************************************************************************)
KnownNames ==
    {"MD5", "SHA-1", "SHA-256", "SHA-384", "SHA-512", "SHA3-256", "SHA3-384",
     "SHA3-512", "BLAKE2b-256", "BLAKE2b-384", "BLAKE2b-512", "BLAKE3"}

OtherNames ==
    {"", "md5", "Md5", "sha-1", "SHA1", "SHA_1", "SHA-1 ", " SHA-1", "SHA-224",
     "SHA3_256", "BLAKE2B-256", "blake3", "BLAKE3 ", "unknown algorithm"}

AlgorithmInputs == KnownNames \cup OtherNames

VariantTags ==
    {"MD5", "SHA1", "SHA256", "SHA384", "SHA512", "SHA3_256", "SHA3_384",
     "SHA3_512", "BLAKE2b_256", "BLAKE2b_384", "BLAKE2b_512", "BLAKE3"}

\* Every HashAlgorithm value a caller can build, the enum being public.
HashAlgorithms ==
    {Variant(t) : t \in VariantTags}
        \cup {UnknownHashAlgorithm(s) : s \in {"MD5", "SHA-1", "unknown algorithm", ""}}

(***************************************************************************)
(* HashValue and the static HASH_VALUE_REGEX.                              *)
(*                                                                         *)
(* The pattern text is                                                     *)
(*   ^([a-fA-F0-9]{32})|([a-fA-F0-9]{40})|([a-fA-F0-9]{64})                *)
(*                     |([a-fA-F0-9]{96})|([a-fA-F0-9]{128})$              *)
(* Alternation binds weaker than concatenation, so the pattern parses as   *)
(* five branches: ^ belongs to the first branch only and $ to the last     *)
(* only.  Regex::is_match is an unanchored search: it succeeds when some   *)
(* branch matches at some position of the text.                            *)
(***************************************************************************)
HexChars ==
    {"0", "1", "2", "3", "4", "5", "6", "7", "8", "9",
     "a", "b", "c", "d", "e", "f", "A", "B", "C", "D", "E", "F"}

\* The character class [a-fA-F0-9].
IsHex(c) == c \in HexChars

\* One branch of the alternation: [^] [a-fA-F0-9]{len} [$].
Branch(atStart, len, atEnd) == [atStart |-> atStart, len |-> len, atEnd |-> atEnd]

\* Regex::new(r"^(..{32})|(..{40})|(..{64})|(..{96})|(..{128})$")
Regex_new ==
    << Branch(TRUE, 32, FALSE), Branch(FALSE, 40, FALSE), Branch(FALSE, 64, FALSE),
       Branch(FALSE, 96, FALSE), Branch(FALSE, 128, TRUE) >>

\* Whether branch b matches text starting at position i (1-based).
BranchMatchesAt(b, text, i) ==
    /\ b.atStart => i = 1
    /\ i + b.len - 1 <= Len(text)
    /\ b.atEnd => i + b.len - 1 = Len(text)
    /\ \A j \in i .. (i + b.len - 1) : IsHex(text[j])

\* Regex::is_match
is_match(regex, text) ==
    \E k \in DOMAIN regex :
        \E i \in 1 .. (Len(text) + 1) : BranchMatchesAt(regex[k], text, i)

\* The body of validate_hash_value once the Lazy has yielded its Regex.
check_hash_value(regex, value) ==
    IF ~is_match(regex, value)
    THEN Err(ValidationError_new("HashValue does not match regular expression"))
    ELSE Ok

\* validate_hash_value, called on its own: the Lazy yields Regex_new.
validate_hash_value(value) == check_hash_value(Regex_new, value)

(***************************************************************************)
(* Inputs of validate_hash_value: a run of hex characters whose length is  *)
(* at or next to a digest length, between a prefix and a suffix of hex and *)
(* non-hex characters; and the two strings of the crate's tests.           *)
(***************************************************************************)
Alphabet == {"a", "F", "0", "g", " "}

RECURSIVE SeqsUpTo(_, _)
SeqsUpTo(S, n) ==
    IF n = 0 THEN {<<>>}
    ELSE LET shorter == SeqsUpTo(S, n - 1)
         IN  shorter \cup {Append(q, x) : q \in shorter, x \in S}

HexRun(n) == [i \in 1 .. n |-> IF i % 3 = 0 THEN "D" ELSE IF i % 3 = 1 THEN "a" ELSE "7"]

DigestLens == {32, 40, 64, 96, 128}

RunLens == {0} \cup {n + d : n \in DigestLens, d \in (0 - RunSlack) .. RunSlack}

\* "a3bf1f3d584747e2569483783ddee45b"
TestHash ==
    << "a", "3", "b", "f", "1", "f", "3", "d", "5", "8", "4", "7", "4", "7", "e", "2",
       "5", "6", "9", "4", "8", "3", "7", "8", "3", "d", "d", "e", "e", "4", "5", "b" >>

\* "not a hash"
NotAHash == << "n", "o", "t", " ", "a", " ", "h", "a", "s", "h" >>

HashValueInputs ==
    {pre \o HexRun(n) \o suf :
        pre \in SeqsUpTo(Alphabet, MaxAffix), n \in RunLens,
        suf \in SeqsUpTo(Alphabet, MaxAffix)}
        \cup {TestHash, NotAHash}

(***************************************************************************)
(* The state each specification leaves untouched.                          *)
(***************************************************************************)
AlgIdle ==
    /\ algInput = None /\ alg = None /\ algText = None /\ algCheck = None

ContentIdle ==
    /\ content = <<>> /\ contentCheck = None

(***************************************************************************)
(* SpecAlg: building, formatting and validating a HashAlgorithm.           *)
(***************************************************************************)
\* alg = HashAlgorithm::new_unchecked(algInput)
NewUnchecked ==
    /\ algInput # None /\ alg = None
    /\ alg' = Some(new_unchecked(algInput[1]))
    /\ UNCHANGED <<algInput, algText, algCheck>>
    /\ UNCHANGED <<contentVars, hashVars, formulaVars, threadVars>>

\* alg built by naming a variant directly (the enum and its variants are pub)
Construct ==
    /\ algInput = None /\ alg = None
    /\ \E a \in HashAlgorithms : alg' = Some(a)
    /\ UNCHANGED <<algInput, algText, algCheck>>
    /\ UNCHANGED <<contentVars, hashVars, formulaVars, threadVars>>

\* algText = alg.to_string()
ToString ==
    /\ alg # None /\ algText = None
    /\ algText' = Some(to_string(alg[1]))
    /\ UNCHANGED <<algInput, alg, algCheck>>
    /\ UNCHANGED <<contentVars, hashVars, formulaVars, threadVars>>

\* algCheck = validate_hash_algorithm(&alg)
ValidateHashAlgorithm ==
    /\ alg # None /\ algCheck = None
    /\ algCheck' = Some(validate_hash_algorithm(alg[1]))
    /\ UNCHANGED <<algInput, alg, algText>>
    /\ UNCHANGED <<contentVars, hashVars, formulaVars, threadVars>>

(***************************************************************************)
(* SpecValue: one call of validate_hash_value.                             *)
(***************************************************************************)
ValidateHashValue ==
    /\ contentCheck = None
    /\ contentCheck' = Some(validate_hash_value(content))
    /\ UNCHANGED content
    /\ UNCHANGED <<algVars, hashVars, formulaVars, threadVars>>

(***************************************************************************)
(* ValidationContext: the accumulator behind every Validate                *)
(* implementation.  A context is the ordered sequence of path-tagged       *)
(* errors recorded so far; each add_* operation returns the context with   *)
(* the errors of one field, list or sub-structure appended under its name. *)
(***************************************************************************)
ValidationContext_new == <<>>

\* ValidationContext -> ValidationResult
Context_into(ctx) == IF ctx = <<>> THEN Passed ELSE Failed(ctx)

\* errors, each with path segment seg put in front of its path
Under(seg, errors) ==
    [k \in DOMAIN errors |->
        Tagged(<<seg>> \o errors[k].path, errors[k].message)]

RECURSIVE Flatten(_)
Flatten(seqs) ==
    IF seqs = <<>> THEN <<>> ELSE Head(seqs) \o Flatten(Tail(seqs))

\* add_field(name, value, leaf_validator), given the leaf validator's Result
add_field(ctx, name, leafResult) ==
    IF leafResult.ok THEN ctx
    ELSE ctx \o <<Tagged(<<Fld(name)>>, leafResult.error)>>

\* add_struct_option(name, optional_substructure, version), given the
\* sub-structure's ValidationResult when it is present
add_struct_option(ctx, name, optResult) ==
    IF optResult = None THEN ctx
    ELSE ctx \o Under(Fld(name), optResult[1].errors)

\* add_list(name, sequence, per_element_validator), given the sequence of the
\* elements' ValidationResults
add_list(ctx, name, results) ==
    ctx \o Under(Fld(name),
                 Flatten([i \in DOMAIN results |->
                             Under(Idx(i - 1), results[i].errors)]))

\* Whether the element at position i repeats an earlier element of list.
IsRepeat(list, i) == \E j \in 1 .. (i - 1) : list[j] = list[i]

DuplicateError == Tagged(<<>>, ValidationError_new("duplicate element"))

\* add_unique_list_option(name, optional_sequence, per_element_validator),
\* given the elements and their ValidationResults when the list is present
add_unique_list_option(ctx, name, optList, optResults) ==
    IF optList = None THEN ctx
    ELSE LET list    == optList[1]
             results == optResults[1]
             at(i)   == (IF IsRepeat(list, i) THEN <<DuplicateError>> ELSE <<>>)
                            \o results[i].errors
         IN  ctx \o Under(Fld(name),
                          Flatten([i \in DOMAIN list |-> Under(Idx(i - 1), at(i))]))

(***************************************************************************)
(* Hash and Hashes.                                                        *)
(***************************************************************************)
Hash(a, c) == [alg |-> a, content |-> c]

\* A plausible slip: the content is checked only when the algorithm passed.
Hash_validate_ShortCircuit(self, version) ==
    IF ~validate_hash_algorithm(self.alg).ok
    THEN Context_into(add_field(ValidationContext_new, "alg",
                                validate_hash_algorithm(self.alg)))
    ELSE Context_into(add_field(ValidationContext_new, "content",
                                validate_hash_value(self.content)))

\* A plausible slip: the content field left out of the validation.
Hash_validate_AlgOnly(self, version) ==
    Context_into(add_field(ValidationContext_new, "alg",
                           validate_hash_algorithm(self.alg)))

\* impl Validate for Hash
Hash_validate(self, version) ==
    Context_into(
        add_field(
            add_field(ValidationContext_new, "alg", validate_hash_algorithm(self.alg)),
            "content", validate_hash_value(self.content)))

\* impl Validate for Hashes
Hashes_validate(self, version) ==
    Context_into(
        add_list(ValidationContext_new, "inner",
                 [i \in DOMAIN self |-> Hash_validate(self[i], version)]))

(***************************************************************************)
(* Inputs of Hashes::validate.                                             *)
(***************************************************************************)
HashAlgInputs ==
    {Variant("MD5"), Variant("SHA1"), UnknownHashAlgorithm("unknown algorithm"),
     UnknownHashAlgorithm("MD5")}

HashContentInputs == {TestHash, NotAHash, HexRun(40) \o <<"g">>}

HashInputs == {Hash(a, c) : a \in HashAlgInputs, c \in HashContentInputs}

HashesIdle == hashes = <<>> /\ hversion = None /\ hresult = None

(***************************************************************************)
(* SpecHashes: one call of Hashes::validate.                               *)
(***************************************************************************)
ValidateHashes ==
    /\ hresult = None
    /\ \E version \in SpecVersions :
          /\ hversion' = Some(version)
          /\ hresult' = Some(Hashes_validate(hashes, version))
    /\ UNCHANGED hashes
    /\ UNCHANGED <<algVars, contentVars, formulaVars, threadVars>>

(***************************************************************************)
(* Formula.  Its components, services, workflows and properties are        *)
(* entities of other files; an entity is modelled by an identity and by    *)
(* whether its own fields are valid, which is all Formula reads of it:     *)
(* equality (for uniqueness) and its validate_version.                     *)
(***************************************************************************)
Entity(id, ok) == [id |-> id, ok |-> ok]

\* validate_version of a Component, Service, Workflow or Properties
Entity_validate_version(self, version) ==
    IF self.ok THEN Passed
    ELSE Failed(<<Tagged(<<Fld("name")>>, ValidationError_new("invalid"))>>)

\* |item| item.validate_version(version), mapped over an optional list
EachValidated(optList, version) ==
    IF optList = None THEN None
    ELSE Some([i \in DOMAIN optList[1] |->
                  Entity_validate_version(optList[1][i], version)])

\* the optional sub-structure validated, as add_struct_option does
StructValidated(optStruct, version) ==
    IF optStruct = None THEN None
    ELSE Some(Entity_validate_version(optStruct[1], version))

\* format!("Formula is not defined for version {version}")
NotDefined(version) ==
    [text |-> "Formula is not defined for version {version}", args |-> <<version>>]

\* The V1_5 arm of Formula::validate_version.
Formula_validate_1_5(self, version) ==
    Context_into(
        add_struct_option(
            add_unique_list_option(
                add_unique_list_option(
                    add_unique_list_option(
                        ValidationContext_new,
                        "components", self.components,
                        EachValidated(self.components, version)),
                    "services", self.services,
                    EachValidated(self.services, version)),
                "workflows", self.workflows,
                EachValidated(self.workflows, version)),
            "properties", StructValidated(self.properties, version)))

\* A plausible slip: V1_4 put in the arm of V1_5.
Formula_validate_version_From1_4(self, version) ==
    IF version = "V1_3"
    THEN Result_into(Err(NotDefined(version)))
    ELSE Formula_validate_1_5(self, version)

\* A plausible slip: workflows added with add_list's rule, without the
\* uniqueness pass.
Formula_validate_version_PlainWorkflows(self, version) ==
    IF version \in {"V1_3", "V1_4"}
    THEN Result_into(Err(NotDefined(version)))
    ELSE Context_into(
        add_struct_option(
            add_list(
                add_unique_list_option(
                    add_unique_list_option(
                        ValidationContext_new,
                        "components", self.components,
                        EachValidated(self.components, version)),
                    "services", self.services,
                    EachValidated(self.services, version)),
                "workflows",
                IF self.workflows = None THEN <<>>
                ELSE EachValidated(self.workflows, version)[1]),
            "properties", StructValidated(self.properties, version)))

\* A plausible slip: services added before components.
Formula_validate_version_ServicesFirst(self, version) ==
    IF version \in {"V1_3", "V1_4"}
    THEN Result_into(Err(NotDefined(version)))
    ELSE Context_into(
        add_struct_option(
            add_unique_list_option(
                add_unique_list_option(
                    add_unique_list_option(
                        ValidationContext_new,
                        "services", self.services,
                        EachValidated(self.services, version)),
                    "components", self.components,
                    EachValidated(self.components, version)),
                "workflows", self.workflows,
                EachValidated(self.workflows, version)),
            "properties", StructValidated(self.properties, version)))

\* A plausible slip: a missing bom_ref reported as an error.
Formula_validate_version_BomRefRequired(self, version) ==
    IF version \in {"V1_3", "V1_4"}
    THEN Result_into(Err(NotDefined(version)))
    ELSE Context_into(
        add_field(Formula_validate_1_5(self, version).errors, "bom_ref",
                  IF self.bom_ref = None
                  THEN Err(ValidationError_new("missing")) ELSE Ok))

\* impl Validate for Formula
Formula_validate_version(self, version) ==
    IF version \in {"V1_3", "V1_4"}
    THEN Result_into(Err(NotDefined(version)))
    ELSE Formula_validate_1_5(self, version)

(***************************************************************************)
(* Inputs of Formula::validate_version.                                    *)
(***************************************************************************)
Entities == {Entity(1, TRUE), Entity(1, FALSE), Entity(2, TRUE)}

OptLists == {None} \cup {Some(l) : l \in SeqsUpTo(Entities, MaxList)}

OptLen(optList) == IF optList = None THEN 0 ELSE Len(optList[1])

Formulas ==
    {f \in [bom_ref    : {None, Some("formula-1")},
            components : OptLists,
            services   : OptLists,
            workflows  : OptLists,
            properties : {None} \cup {Some(e) : e \in Entities}] :
        OptLen(f.components) + OptLen(f.services) + OptLen(f.workflows) <= MaxTotal}

NoFormula ==
    [bom_ref |-> None, components |-> None, services |-> None,
     workflows |-> None, properties |-> None]

FormulaIdle ==
    formula = NoFormula /\ fversion = None /\ fresult = None /\ fresult2 = None

(***************************************************************************)
(* SpecFormula: validate_version called on a Formula, and called again on  *)
(* the same, unchanged Formula.                                            *)
(***************************************************************************)
ValidateFormula ==
    /\ fresult = None
    /\ \E version \in SpecVersions :
          /\ fversion' = Some(version)
          /\ fresult' = Some(Formula_validate_version(formula, version))
    /\ UNCHANGED <<formula, fresult2>>
    /\ UNCHANGED <<algVars, contentVars, hashVars, threadVars>>

ValidateFormulaAgain ==
    /\ fresult # None /\ fresult2 = None
    /\ fresult2' = Some(Formula_validate_version(formula, fversion[1]))
    /\ UNCHANGED <<formula, fversion, fresult>>
    /\ UNCHANGED <<algVars, contentVars, hashVars, threadVars>>

(***************************************************************************)
(* SpecThreads: validate_hash_value called from several threads.           *)
(*                                                                         *)
(* HASH_VALUE_REGEX is a once_cell::sync::Lazy<Regex>.  Dereferencing it   *)
(* forces the cell: a thread that finds it incomplete marks it running and *)
(* runs the closure (Regex::new); a thread that finds it running blocks    *)
(* until it is complete; a thread that finds it complete reads the value.  *)
(***************************************************************************)
Threads == 1 .. NumThreads

ThreadInputs == {TestHash, NotAHash, HexRun(33)}

Incomplete       == [state |-> "incomplete", regex |-> <<>>]
Complete(regex)  == [state |-> "complete", regex |-> regex]

\* A plausible slip: a cell that is being initialised is initialised again
\* by the next thread instead of being waited for.
Lazy_force_NoWait(c) ==
    IF c.state = "complete" THEN "match" ELSE "init"

\* Lazy::force: what the dereferencing thread does next.
Lazy_force(c) ==
    CASE c.state = "incomplete" -> "init"
      [] c.state = "running"    -> "wait"
      [] c.state = "complete"   -> "match"

ThreadsIdle ==
    /\ cell = Incomplete /\ compiles = 0
    /\ pc = [t \in Threads |-> "idle"]
    /\ arg = [t \in Threads |-> <<>>]
    /\ ret = [t \in Threads |-> None]

\* a thread enters validate_hash_value(&value)
Call(t) ==
    /\ pc[t] = "idle"
    /\ \E value \in ThreadInputs : arg' = [arg EXCEPT ![t] = value]
    /\ pc' = [pc EXCEPT ![t] = "deref"]
    /\ UNCHANGED <<cell, compiles, ret>>
    /\ UNCHANGED <<algVars, contentVars, hashVars, formulaVars>>

\* HASH_VALUE_REGEX is dereferenced: the Lazy is forced
Deref(t) ==
    /\ pc[t] = "deref"
    /\ Lazy_force(cell) # "wait"
    /\ pc' = [pc EXCEPT ![t] = Lazy_force(cell)]
    /\ cell' = IF Lazy_force(cell) = "init"
               THEN [cell EXCEPT !.state = "running"] ELSE cell
    /\ UNCHANGED <<compiles, arg, ret>>
    /\ UNCHANGED <<algVars, contentVars, hashVars, formulaVars>>

\* the Lazy's closure: Regex::new(..).expect(..), stored in the cell
Compile(t) ==
    /\ pc[t] = "init"
    /\ cell' = Complete(Regex_new)
    /\ compiles' = compiles + 1
    /\ pc' = [pc EXCEPT ![t] = "match"]
    /\ UNCHANGED <<arg, ret>>
    /\ UNCHANGED <<algVars, contentVars, hashVars, formulaVars>>

\* is_match on the cell's Regex, and the return
Match(t) ==
    /\ pc[t] = "match"
    /\ ret' = [ret EXCEPT ![t] = Some(check_hash_value(cell.regex, arg[t]))]
    /\ pc' = [pc EXCEPT ![t] = "done"]
    /\ UNCHANGED <<cell, compiles, arg>>
    /\ UNCHANGED <<algVars, contentVars, hashVars, formulaVars>>

(***************************************************************************)
(* The specifications.                                                     *)
(***************************************************************************)
InitAlg ==
    /\ algInput \in {None} \cup {Some(s) : s \in AlgorithmInputs}
    /\ alg = None /\ algText = None /\ algCheck = None
    /\ ContentIdle /\ HashesIdle /\ FormulaIdle /\ ThreadsIdle

NextAlg == NewUnchecked \/ Construct \/ ToString \/ ValidateHashAlgorithm

SpecAlg == InitAlg /\ [][NextAlg]_vars

InitValue ==
    /\ content \in HashValueInputs
    /\ contentCheck = None
    /\ AlgIdle /\ HashesIdle /\ FormulaIdle /\ ThreadsIdle

NextValue == ValidateHashValue

SpecValue == InitValue /\ [][NextValue]_vars

InitHashes ==
    /\ hashes \in SeqsUpTo(HashInputs, MaxHashes)
    /\ hversion = None /\ hresult = None
    /\ AlgIdle /\ ContentIdle /\ FormulaIdle /\ ThreadsIdle

NextHashes == ValidateHashes

SpecHashes == InitHashes /\ [][NextHashes]_vars

InitFormula ==
    /\ formula \in Formulas
    /\ fversion = None /\ fresult = None /\ fresult2 = None
    /\ AlgIdle /\ ContentIdle /\ HashesIdle /\ ThreadsIdle

NextFormula == ValidateFormula \/ ValidateFormulaAgain

SpecFormula == InitFormula /\ [][NextFormula]_vars

InitThreads ==
    /\ ThreadsIdle
    /\ AlgIdle /\ ContentIdle /\ HashesIdle /\ FormulaIdle

NextThreads == \E t \in Threads : Call(t) \/ Deref(t) \/ Compile(t) \/ Match(t)

SpecThreads == InitThreads /\ [][NextThreads]_vars

(***************************************************************************)
(* Properties.                                                             *)
(***************************************************************************)
UnknownAlgorithmError == ValidationError_new("Unknown HashAlgorithm")
HashValueError == ValidationError_new("HashValue does not match regular expression")

\* text consists of exactly 32, 40, 64, 96 or 128 hexadecimal characters
ExactHexDigest(text) ==
    /\ Len(text) \in {32, 40, 64, 96, 128}
    /\ \A j \in DOMAIN text : IsHex(text[j])

\* C1: validate_hash_value returns Ok if and only if the whole string is
\* exactly 32, 40, 64, 96 or 128 hexadecimal characters, and the error
\* "HashValue does not match regular expression" for every other string.
C1_OkIffExactHexDigest ==
    contentCheck # None =>
        /\ contentCheck[1].ok <=> ExactHexDigest(content)
        /\ ~contentCheck[1].ok => contentCheck[1] = Err(HashValueError)

\* C2: for V1_3 and V1_4, whatever the fields hold, validate_version returns
\* Failed with exactly one error, "Formula is not defined for version
\* {version}", and no field-level or duplicate error.
C2_UndefinedVersionOneError ==
    (fresult # None /\ fversion[1] \in {"V1_3", "V1_4"}) =>
        /\ fresult[1].kind = "Failed"
        /\ Len(fresult[1].errors) = 1
        /\ fresult[1].errors[1].path = <<>>
        /\ fresult[1].errors[1].message.text
               = "Formula is not defined for version {version}"
        /\ fresult[1].errors[1].message.args = <<fversion[1]>>

\* C2's case: V1_4, and a Formula whose components hold a repeated, invalid
\* element and whose properties are invalid.
C2_Witness ==
    /\ fresult # None /\ fversion = Some("V1_4")
    /\ formula.components = Some(<<Entity(1, FALSE), Entity(1, FALSE)>>)
    /\ formula.properties = Some(Entity(1, FALSE))

\* C3: new_unchecked yields a value for every string, a named variant for a
\* name of the table ("SHA-1" gives SHA1) and UnknownHashAlgorithm(s) with
\* the text unchanged for any other string s, and to_string of that value is
\* the string it was built from.
C3_NewUncheckedRoundTrips ==
    (algInput # None /\ alg # None) =>
        /\ algInput[1] \in KnownNames => alg[1].tag \in VariantTags
        /\ algInput[1] = "SHA-1" => alg[1] = Variant("SHA1")
        /\ algInput[1] \notin KnownNames => alg[1] = UnknownHashAlgorithm(algInput[1])
        /\ algText # None => algText[1] = algInput[1]

\* C3's case: "SHA-1" parsed to SHA1 and formatted back.
C3_Witness ==
    /\ algInput = Some("SHA-1") /\ alg = Some(Variant("SHA1"))
    /\ algText = Some("SHA-1")

\* C4: Hashes::validate returns Passed if and only if every element has an
\* algorithm other than UnknownHashAlgorithm and a content that
\* validate_hash_value accepts, and returns the same for every SpecVersion.
C4_PassedIffAllValid ==
    hresult # None =>
        /\ hresult[1] = Passed <=>
               \A i \in DOMAIN hashes :
                   /\ hashes[i].alg.tag # "UnknownHashAlgorithm"
                   /\ validate_hash_value(hashes[i].content).ok
        /\ \A v \in SpecVersions : Hashes_validate(hashes, v) = hresult[1]

\* C4's case: a list of two valid hashes passes under V1_5.
C4_Witness ==
    /\ hresult = Some(Passed) /\ hversion = Some("V1_5")
    /\ Len(hashes) = 2

\* the errors an element at zero-based index i must contribute
ExpectedHashErrors(h, i) ==
    (IF h.alg.tag = "UnknownHashAlgorithm"
     THEN <<Tagged(<<Fld("inner"), Idx(i), Fld("alg")>>, UnknownAlgorithmError)>>
     ELSE <<>>)
    \o
    (IF ~validate_hash_value(h.content).ok
     THEN <<Tagged(<<Fld("inner"), Idx(i), Fld("content")>>, HashValueError)>>
     ELSE <<>>)

\* C5: the result of Hashes::validate holds, in list order, for every
\* element an "alg" error when its algorithm is Unknown followed by a
\* "content" error when its content is rejected, under "inner" and the
\* element's index, and nothing else; no element hides a later one's errors.
C5_AllErrorsCollected ==
    hresult # None =>
        /\ hresult[1].errors
               = Flatten([i \in DOMAIN hashes |-> ExpectedHashErrors(hashes[i], i - 1)])
        /\ hresult[1].kind = "Failed" <=> hresult[1].errors # <<>>

\* C5's case: two elements, each with an Unknown algorithm and a rejected
\* content: four errors.
C5_Witness ==
    /\ hresult # None /\ Len(hashes) = 2
    /\ \A i \in DOMAIN hashes :
           /\ hashes[i].alg.tag = "UnknownHashAlgorithm"
           /\ hashes[i].content = NotAHash
    /\ Len(hresult[1].errors) = 4

UniqueLists == {"components", "services", "workflows"}

\* the list of the Formula under name (empty when absent)
ListOf(name) == IF formula[name] = None THEN <<>> ELSE formula[name][1]

\* the positions, in the first result's errors, of the errors under name
ErrorsUnder(name) ==
    {k \in DOMAIN fresult[1].errors : Head(fresult[1].errors[k].path) = Fld(name)}

\* a duplicate error: tagged with the list's name and the index, no deeper
DuplicateErrorAt(name, index) ==
    \E k \in DOMAIN fresult[1].errors :
        fresult[1].errors[k].path = <<Fld(name), Idx(index)>>

\* an error of the element's own fields: a longer path under name and index
FieldErrorAt(name, index) ==
    \E k \in DOMAIN fresult[1].errors :
        /\ Len(fresult[1].errors[k].path) > 2
        /\ SubSeq(fresult[1].errors[k].path, 1, 2) = <<Fld(name), Idx(index)>>

\* C6: under V1_5, in each of components, services and workflows, the
\* element at index j gets a duplicate error tagged with the list's name and
\* j if and only if an element at a smaller index equals it; a first
\* occurrence is never flagged, and a repeated element that is invalid gets
\* its field errors as well.
C6_DuplicatesFlaggedAfterFirst ==
    (fresult # None /\ fversion = Some("V1_5")) =>
        \A name \in UniqueLists :
            \A j \in DOMAIN ListOf(name) :
                /\ DuplicateErrorAt(name, j - 1) <=>
                       \E i \in 1 .. (j - 1) : ListOf(name)[i] = ListOf(name)[j]
                /\ ~ListOf(name)[j].ok => FieldErrorAt(name, j - 1)

\* C6's case: workflows with equal, invalid elements at indices 0 and 2:
\* a duplicate error at index 2 only, beside the field errors.
C6_Witness ==
    /\ fresult # None /\ fversion = Some("V1_5")
    /\ formula.workflows = Some(<<Entity(1, FALSE), Entity(2, TRUE), Entity(1, FALSE)>>)
    /\ DuplicateErrorAt("workflows", 2) /\ FieldErrorAt("workflows", 2)
    /\ ~DuplicateErrorAt("workflows", 0) /\ FieldErrorAt("workflows", 0)

\* the declaration order of the validated fields of Formula
FieldRank(seg) ==
    CASE seg = Fld("components") -> 1
      [] seg = Fld("services")   -> 2
      [] seg = Fld("workflows")  -> 3
      [] seg = Fld("properties") -> 4

C10_AbsentContributesNothing ==
    (fresult # None /\ fversion = Some("V1_5")) =>
        /\ ( /\ formula.components = None /\ formula.services = None
             /\ formula.workflows = None /\ formula.properties = None )
               => fresult[1] = Passed
        /\ \A b \in {None, Some("formula-1")} :
               Formula_validate_version([formula EXCEPT !.bom_ref = b], "V1_5")
                   = fresult[1]

\* C10's case: everything absent, bom_ref too, validated under V1_5.
C10_Witness ==
    /\ fresult = Some(Passed) /\ fversion = Some("V1_5")
    /\ formula = NoFormula

\* C7: validate_hash_algorithm returns the error "Unknown HashAlgorithm" if
\* and only if its argument is UnknownHashAlgorithm, whatever its string,
\* and Ok otherwise; on new_unchecked(s) it fails exactly when s is not one
\* of the twelve names of the table, compared exactly.
C7_UnknownIffNotInTable ==
    algCheck # None =>
        /\ algCheck[1] = Err(UnknownAlgorithmError)
               <=> alg[1].tag = "UnknownHashAlgorithm"
        /\ alg[1].tag # "UnknownHashAlgorithm" => algCheck[1] = Ok
        /\ algInput # None =>
               (~algCheck[1].ok <=>
                    algInput[1] \notin
                        {"MD5", "SHA-1", "SHA-256", "SHA-384", "SHA-512", "SHA3-256",
                         "SHA3-384", "SHA3-512", "BLAKE2b-256", "BLAKE2b-384",
                         "BLAKE2b-512", "BLAKE3"})

\* C7's case: "md5", a name of the table in another case, is rejected.
C7_Witness ==
    /\ algInput = Some("md5") /\ algCheck = Some(Err(UnknownAlgorithmError))

\* C9: with validate_hash_value running in several threads, in any
\* interleaving, the Regex is compiled at most once, the cell does not
\* change once it is complete, and every call returns what the call would
\* return alone.
C9_CompiledOnceSameResults ==
    /\ [](/\ compiles <= 1
          /\ \A t \in Threads :
                 ret[t] # None => ret[t][1] = validate_hash_value(arg[t]))
    /\ [][cell.state = "complete" => cell' = cell]_vars

\* C9's case: every thread has returned, two of them with different
\* results, after one compilation.
C9_Witness ==
    /\ \A t \in Threads : pc[t] = "done" /\ ret[t] # None
    /\ \E t, u \in Threads : ret[t][1].ok /\ ~ret[u][1].ok
    /\ compiles = 1

====
